---- MODULE Spec2Model ----
(***************************************************************************)
(* A model of the conversational core of the Veda backend:                 *)
(*   - ModerationService   (app/services/moderation.py)                    *)
(*   - LLMProvider         (app/services/llm_provider.py)                  *)
(*   - ChatManager, WebSocketStreamer, StreamCache                         *)
(*                         (app/services/chat_manager.py)                  *)
(*   - the WebSocket router (app/api/routers/stream.py)                    *)
(*                                                                         *)
(* Text is a sequence of one-character strings, so that lower(), strip(),  *)
(* split() and the \b-anchored regular expressions are computed the way    *)
(* the Python code computes them.                                          *)
(***************************************************************************)
EXTENDS Integers, Sequences, FiniteSets, TLC

VARIABLES
    \* ---- ModerationService (moderation.py:46-68) ----
    modRules,       \* self.rules: tier -> list of keywords
    modSource,      \* what the last _load_rules found at self.rules_file
    modCompiled,    \* self._compiled_patterns: tier -> list of patterns
    modEnabled,     \* self.enabled
    modStats,       \* self.stats
    modContent,     \* the content of the last moderate_content call
    modResult,      \* the ModerationResult of the last moderate_content call
    \* ---- LLMProvider (llm_provider.py) ----
    pipe,           \* the one pipeline run in progress: its locals and its output
    \* ---- ChatManager, StreamCache (chat_manager.py), stream.py ----
    call,           \* the calls of handle_user_message: position, locals, frames sent
    messages,       \* the rows of the messages table
    msgCount,       \* conversation.messages_count
    cache,          \* StreamCache._cache
    now,            \* time.time(), in seconds
    resume,         \* the last resume request handled and the frames it was answered with
    conn,           \* the runs of websocket_endpoint: position, close code, frames sent
    registry        \* manager.active_connections: connection key -> WebSocket

modVars == <<modRules, modSource, modCompiled, modEnabled, modStats, modContent, modResult>>

connVars == <<conn, registry>>

chatVars == <<call, messages, msgCount, cache, now, resume, connVars>>

provVars == <<modVars, pipe>>

vars == <<modRules, modSource, modCompiled, modEnabled, modStats, modContent, modResult, pipe,
          call, messages, msgCount, cache, now, resume, conn, registry>>

---------------------------------------------------------------------------
(* Bounds of the model *)

\* longest text handed to moderate_content
MaxTextLen == 3
\* most moderate_content calls that are counted in the statistics
MaxChecks == 2

---------------------------------------------------------------------------
(* Text *)

\* the characters texts are made of: two letters, an upper-case letter, a blank
Chars == {"a", "b", "A", " "}

SeqsUpTo(S, n) == UNION {[1..k -> S] : k \in 0..n}

Texts == SeqsUpTo(Chars, MaxTextLen)

\* str.lower() on one character
LowerChar(c) == IF c = "A" THEN "a" ELSE c

\* str.lower()
Lower(s) == [i \in 1..Len(s) |-> LowerChar(s[i])]

\* str.isspace() on one character
IsSpace(c) == c \in {" ", "\n"}

RECURSIVE LStrip(_)
LStrip(s) == IF s # <<>> /\ IsSpace(Head(s)) THEN LStrip(Tail(s)) ELSE s

RECURSIVE RStrip(_)
RStrip(s) ==
    IF s # <<>> /\ IsSpace(s[Len(s)]) THEN RStrip(SubSeq(s, 1, Len(s) - 1)) ELSE s

\* str.strip()
Strip(s) == RStrip(LStrip(s))

\* \w of the regular expressions: every symbol of the model that is no blank
IsWordChar(c) == ~IsSpace(c)

---------------------------------------------------------------------------
(* ModerationService *)

\* a loop that walks the tiers from the mildest to the gravest
SeverityOrderLowFirst == <<"low", "medium", "medical_emergency", "high">>

\* the order in which moderate_content walks the tiers (moderation.py:138)
SeverityOrder == <<"high", "medium", "low", "medical_emergency">>

Tiers == {"high", "medium", "low", "medical_emergency"}

\* what _load_rules returns when the file is missing or corrupt
EmptyRules == [t \in Tiers |-> <<>>]

\* The rule files the model loads: the repository ships none under src/, so
\* the rules are an input.  Each is a tier -> keyword-list map.
RuleSets ==
    { EmptyRules,
      [EmptyRules EXCEPT !["high"] = << <<"a">> >>, !["medium"] = << <<"b">> >>],
      [EmptyRules EXCEPT !["high"] = << <<"A">> >>, !["low"] = << <<"b">> >>],
      [EmptyRules EXCEPT !["high"] = << <<"a">> >>, !["medical_emergency"] = << <<"b">> >>],
      [EmptyRules EXCEPT !["medical_emergency"] = << <<"a">> >>, !["medium"] = << <<"b">> >>],
      [EmptyRules EXCEPT !["medical_emergency"] = << <<"a">> >>, !["low"] = << <<"b">> >>],
      [EmptyRules EXCEPT !["medium"] = << <<"a">>, <<"b">> >>, !["low"] = << <<"b">> >>],
      [EmptyRules EXCEPT !["low"] = << <<"a", " ", "b">> >>],
      [t \in Tiers |-> << <<"a">> >>] }

\* _compile_patterns: r'\b' + re.escape(keyword.lower()) + r'\b', IGNORECASE.
\* A pattern is kept as the lower-cased keyword; the anchors are in MatchAt.
CompilePatterns(rules) ==
    [t \in DOMAIN rules |-> [i \in 1..Len(rules[t]) |-> Lower(rules[t][i])]]

\* whether position k (1-based) of s holds a word character
IsWordAt(s, k) == k >= 1 /\ k <= Len(s) /\ IsWordChar(s[k])

\* \b between positions k and k+1 of s
BoundaryAfter(s, k) == IsWordAt(s, k) # IsWordAt(s, k + 1)

\* a matcher without the two \b anchors
MatchAtUnanchored(pat, s, i) ==
    /\ i + Len(pat) - 1 <= Len(s)
    /\ \A k \in 1..Len(pat) : LowerChar(s[i + k - 1]) = pat[k]

\* the compiled pattern pat matches s at position i
MatchAt(pat, s, i) ==
    /\ i + Len(pat) - 1 <= Len(s)
    /\ \A k \in 1..Len(pat) : LowerChar(s[i + k - 1]) = pat[k]
    /\ BoundaryAfter(s, i - 1)
    /\ BoundaryAfter(s, i + Len(pat) - 1)

\* pattern.findall(content): the non-overlapping matches, left to right
RECURSIVE FindAllFrom(_, _, _)
FindAllFrom(pat, s, i) ==
    IF i > Len(s) \/ pat = <<>> THEN <<>>
    ELSE IF MatchAt(pat, s, i)
         THEN <<SubSeq(s, i, i + Len(pat) - 1)>> \o FindAllFrom(pat, s, i + Len(pat))
         ELSE FindAllFrom(pat, s, i + 1)

FindAll(pat, s) == FindAllFrom(pat, s, 1)

RECURSIVE ExtendMatches(_, _, _)
ExtendMatches(patterns, content, i) ==
    IF i > Len(patterns) THEN <<>>
    ELSE FindAll(patterns[i], content) \o ExtendMatches(patterns, content, i + 1)

\* _check_severity_level
CheckSeverityLevel(compiled, content, severity) ==
    LET patterns == IF severity \in DOMAIN compiled THEN compiled[severity] ELSE <<>>
    IN  ExtendMatches(patterns, content, 1)

NoSeverity == "none"

ModerationResult(safe, sev, kws, act, msg, meta) ==
    [is_safe |-> safe, severity |-> sev, matched_keywords |-> kws,
     action |-> act, message |-> msg, recommended_action |-> meta]

\* a policy that flags every tier alike
CreateResultFlagAll(severity, matched) ==
    ModerationResult(TRUE, severity, matched, "flag", "Content flagged for review", "none")

\* _create_result_for_severity
CreateResultForSeverity(severity, matched) ==
    IF severity = "high"
    THEN ModerationResult(FALSE, severity, matched, "block",
                          "Content blocked due to high-risk keywords", "none")
    ELSE IF severity = "medical_emergency"
    THEN ModerationResult(TRUE, severity, matched, "flag",
                          "Medical emergency keywords detected - prioritize response",
                          "immediate_medical_attention")
    ELSE IF severity = "medium"
    THEN ModerationResult(TRUE, severity, matched, "flag",
                          "Content flagged for review", "none")
    ELSE IF severity = "low"
    THEN ModerationResult(TRUE, severity, matched, "allow",
                          "Content allowed with warning logged", "none")
    ELSE ModerationResult(TRUE, NoSeverity, <<>>, "allow", "", "none")

\* the first tier, in the order the loop walks them from position i on, with a match
RECURSIVE FirstMatchingTier(_, _, _, _)
FirstMatchingTier(order, compiled, normalized, i) ==
    IF i > Len(order) THEN NoSeverity
    ELSE IF CheckSeverityLevel(compiled, normalized, order[i]) # <<>>
         THEN order[i]
         ELSE FirstMatchingTier(order, compiled, normalized, i + 1)

\* whether moderate_content gets past its two early returns
IsScreened(enabled, content) == enabled /\ Strip(content) # <<>>

\* moderate_content: the result it returns
ModerateContent(enabled, compiled, content) ==
    IF ~enabled
    THEN ModerationResult(TRUE, NoSeverity, <<>>, "allow", "Moderation disabled", "none")
    ELSE IF Strip(content) = <<>>
    THEN ModerationResult(TRUE, NoSeverity, <<>>, "allow", "Empty content", "none")
    ELSE LET normalized == Strip(Lower(content))
             severity == FirstMatchingTier(SeverityOrder, compiled, normalized, 1)
         IN  IF severity = NoSeverity
             THEN ModerationResult(TRUE, NoSeverity, <<>>, "allow",
                                   "Content passed moderation checks", "none")
             ELSE CreateResultForSeverity(
                      severity, CheckSeverityLevel(compiled, normalized, severity))

StatKeys == {"total_checks", "blocked_messages", "flagged_messages", "high_severity",
             "medium_severity", "low_severity", "medical_emergency"}

ZeroStats == [k \in StatKeys |-> 0]

SeverityKey(severity) ==
    IF severity = "medical_emergency" THEN "medical_emergency"
    ELSE IF severity = "high" THEN "high_severity"
    ELSE IF severity = "medium" THEN "medium_severity"
    ELSE "low_severity"

Bump(stats, key) == [stats EXCEPT ![key] = @ + 1]

\* statistics that count the action and no tier
UpdateStatsNoTier(stats, severity, action) ==
    IF action = "block" THEN Bump(stats, "blocked_messages")
    ELSE IF action = "flag" THEN Bump(stats, "flagged_messages")
    ELSE stats

\* _update_stats
UpdateStats(stats, severity, action) ==
    LET s1 == IF action = "block" THEN Bump(stats, "blocked_messages")
              ELSE IF action = "flag" THEN Bump(stats, "flagged_messages")
              ELSE stats
    IN  Bump(s1, SeverityKey(severity))

\* moderate_content: the statistics it leaves
StatsAfterModerate(stats, enabled, compiled, content) ==
    IF ~IsScreened(enabled, content) THEN stats
    ELSE LET r == ModerateContent(enabled, compiled, content)
             s1 == Bump(stats, "total_checks")
         IN  IF r.severity = NoSeverity THEN s1
             ELSE UpdateStats(s1, r.severity, r.action)

NoResult == ModerationResult(TRUE, NoSeverity, <<>>, "allow", "not called", "none")

\* the effect of one moderate_content(content) call on the service
ModerateCall(content) ==
    /\ modContent' = content
    /\ modResult' = ModerateContent(modEnabled, modCompiled, content)
    /\ modStats' = StatsAfterModerate(modStats, modEnabled, modCompiled, content)
    /\ UNCHANGED <<modRules, modSource, modCompiled, modEnabled>>

---------------------------------------------------------------------------
(* LLMProvider: the fixed texts *)

SP == " "
NL == "\n"

\* self.disclaimer (llm_provider.py:131-133), its 26 words cut to five
Disclaimer ==
    <<NL, NL, "Medical", SP, "Disclaimer:", SP, "consult", SP, "a", SP, "provider.">>

\* get_safe_response_for_blocked_content (moderation.py:317-349), words cut
SafeResponseForBlockedContent(severity) ==
    IF severity = "high"
    THEN <<"I'm", SP, "not", SP, "able", SP, "to", SP, "respond.", SP, "Call", SP, "911.">>
    ELSE IF severity = "medical_emergency"
    THEN <<"MEDICAL", SP, "EMERGENCY", NL, NL, "Call", SP, "911", SP, "immediately">>
    ELSE <<"I", SP, "understand", SP, "you", SP, "may", SP, "be", SP, "frustrated.">>

\* the block add_emergency_resources_to_response appends (moderation.py:354-360),
\* and the same literal in process_pipeline_stream (llm_provider.py:482-488)
EmergencyResources == <<NL, NL, "Emergency", SP, "Resources:", NL, "Emergency:", SP, "911">>

\* the replacement of a blocked output in process_pipeline (llm_provider.py:200)
OutputBlockedMessage == <<"I", SP, "apologize,", SP, "I", SP, "cannot", SP, "respond.">>

\* what process_pipeline_stream yields on a blocked output (llm_provider.py:478)
StreamModeratedNote == <<NL, NL, "[Response", SP, "moderated]">>

\* the apology of _generate_final_response and _stream_final_response
\* (llm_provider.py:397, 534)
GenerationApology == <<"I", SP, "apologize,", SP, "technical", SP, "difficulties.">>

\* _handle_pipeline_error for an error naming neither audio nor image
PipelineErrorMessage ==
    <<"I", SP, "apologize,", SP, "an", SP, "error.", SP, "Please", SP, "retry", SP,
      "for", SP, "assistance.">>

\* what process_pipeline_stream yields first in its except branch (llm_provider.py:496)
StreamErrorMessage == <<"I", SP, "apologize,", SP, "an", SP, "error.", SP, "Please", SP, "retry.">>

\* a transcription failure that leaves no text behind
AudioFailedEmpty == <<>>

\* the placeholders of _process_audio_input and _process_image_input
AudioFailedPlaceholder == <<"[Audio", SP, "failed]">>
ImageFailedPlaceholder == <<"Image", SP, "analysis:", SP, "unable">>

\* the canned texts of _dev_mode_response
DevTranscribed == <<"[Transcribed]:", SP, "headache">>
DevImageAnalysis == <<"[Image", SP, "Analysis]:", SP, "detected">>

\* the canned answers of _dev_mode_final_response (llm_provider.py:578-584)
DevResponses ==
    << <<"Thank", SP, "you", SP, "for", SP, "your", SP, "question.">>,
       <<"I", SP, "understand", SP, "your", SP, "concern.">>,
       <<"Your", SP, "symptoms", SP, "vary.">>,
       <<"I", SP, "appreciate", SP, "it.">>,
       <<"Based", SP, "on", SP, "that,", SP, "see", SP, "a", SP, "doctor.">> >>

---------------------------------------------------------------------------
(* LLMProvider: text helpers *)

RECURSIVE Flatten(_)
\* "".join(chunks)
Flatten(chunks) == IF chunks = <<>> THEN <<>> ELSE Head(chunks) \o Flatten(Tail(chunks))

\* _combine_text_inputs
CombineTextInputs(existing, new) ==
    IF existing = <<>> THEN new ELSE existing \o <<NL, NL>> \o new

RECURSIVE SplitFrom(_, _, _)
\* str.split(): the maximal runs of non-blank symbols; cur is the run being read
SplitFrom(s, i, cur) ==
    IF i > Len(s) THEN (IF cur = <<>> THEN <<>> ELSE <<cur>>)
    ELSE IF IsSpace(s[i])
         THEN (IF cur = <<>> THEN <<>> ELSE <<cur>>) \o SplitFrom(s, i + 1, <<>>)
         ELSE SplitFrom(s, i + 1, Append(cur, s[i]))

Split(s) == SplitFrom(s, 1, <<>>)

\* the words a chunk of _dev_mode_stream holds (llm_provider.py:612)
DevChunkWords == 4

RECURSIVE DevChunksFrom(_, _, _)
\* the loop of _dev_mode_stream: current_chunk += word + " ", and every
\* DevChunkWords-th word, and the last one, yield current_chunk.strip()
DevChunksFrom(words, i, current) ==
    IF i > Len(words) THEN <<>>
    ELSE LET cur == current \o words[i] \o <<SP>>
         IN  IF i % DevChunkWords = 0 \/ i = Len(words)
             THEN <<Strip(cur)>> \o DevChunksFrom(words, i + 1, <<>>)
             ELSE DevChunksFrom(words, i + 1, cur)

\* the chunks _dev_mode_stream yields for a full response
DevStreamChunks(full) == DevChunksFrom(Split(full), 1, <<>>)

EndsWith(s, suffix) ==
    /\ Len(s) >= Len(suffix)
    /\ SubSeq(s, Len(s) - Len(suffix) + 1, Len(s)) = suffix

\* how often sub occurs in s
Occurrences(s, sub) ==
    Cardinality({i \in 1..(Len(s) - Len(sub) + 1) : SubSeq(s, i, i + Len(sub) - 1) = sub})

---------------------------------------------------------------------------
(* LLMProvider: one run of process_pipeline / process_pipeline_stream *)

\* what the vision model's description becomes (llm_provider.py:290)
ImageDescription == <<"Image", SP, "analysis:", SP, "x">>

\* the texts a caller hands to the pipeline ("a" and "b" are rule terms)
PipeTexts == {<<>>, <<"a">>, <<"b">>, <<"x">>}

\* what the transcription service returns
Transcripts == {<<"a">>, <<"x">>}

\* what the summarizer returns
Summaries == {<<"x">>}

\* what the main model generates, as the chunks of its stream
GenStreams == { <<>>, << <<"g">> >>, << <<"g", SP>>, <<"a">> >> }

PipeIdle ==
    [pc |-> "idle", mode |-> "batch", dev |-> FALSE, text |-> <<>>,
     audio |-> FALSE, image |-> FALSE, hash |-> 1, stages |-> <<>>,
     inMod |-> NoResult, plan |-> <<>>, genFails |-> FALSE,
     buf |-> <<>>, chunks |-> <<>>, ret |-> <<>>, failed |-> {}]

\* the answer of the run: the returned text, or the concatenated stream
PipeAnswer == IF pipe.mode = "batch" THEN pipe.ret ELSE Flatten(pipe.chunks)

\* the pipeline delivers `full` and ends: a return value, or one yielded chunk
Deliver(p, full) ==
    IF p.mode = "batch"
    THEN [p EXCEPT !.pc = "done", !.ret = full]
    ELSE [p EXCEPT !.pc = "done", !.chunks = Append(@, full)]

\* process_pipeline / process_pipeline_stream is called
PipeStart(mode, dev, text, audio, image, h) ==
    /\ pipe.pc = "idle"
    /\ pipe' = [PipeIdle EXCEPT !.pc = IF dev THEN "dev" ELSE "audio",
                                !.mode = mode, !.dev = dev, !.text = text,
                                !.audio = audio, !.image = image, !.hash = h]
    /\ UNCHANGED <<modVars, chatVars>>

\* Step 1 (llm_provider.py:169-172, 244-264): transcription, or its placeholder
PipeAudio ==
    /\ pipe.pc = "audio"
    /\ IF pipe.audio
       THEN \/ \E t \in Transcripts :
                  pipe' = [pipe EXCEPT !.pc = "image",
                                       !.text = CombineTextInputs(@, t),
                                       !.stages = Append(@, "transcribe")]
            \/ pipe' = [pipe EXCEPT !.pc = "image",
                                    !.text = CombineTextInputs(@, AudioFailedPlaceholder),
                                    !.stages = Append(@, "transcribe"),
                                    !.failed = @ \cup {"transcribe"}]
       ELSE pipe' = [pipe EXCEPT !.pc = "image"]
    /\ UNCHANGED <<modVars, chatVars>>

\* Step 2 (llm_provider.py:175-178, 266-294): visual description, or its placeholder
PipeImage ==
    /\ pipe.pc = "image"
    /\ IF pipe.image
       THEN \/ pipe' = [pipe EXCEPT !.pc = "moderate",
                                    !.text = CombineTextInputs(@, ImageDescription),
                                    !.stages = Append(@, "vision")]
            \/ pipe' = [pipe EXCEPT !.pc = "moderate",
                                    !.text = CombineTextInputs(@, ImageFailedPlaceholder),
                                    !.stages = Append(@, "vision"),
                                    !.failed = @ \cup {"vision"}]
       ELSE pipe' = [pipe EXCEPT !.pc = "moderate"]
    /\ UNCHANGED <<modVars, chatVars>>

\* `if not text: raise ValueError`, caught by the pipeline's own except branch:
\* _handle_pipeline_error (batch), two yields (stream)
PipeNoText ==
    /\ pipe.pc = "moderate"
    /\ pipe.text = <<>>
    /\ pipe' = IF pipe.mode = "batch"
               THEN [pipe EXCEPT !.pc = "done", !.ret = PipelineErrorMessage \o Disclaimer]
               ELSE [pipe EXCEPT !.pc = "done",
                                 !.chunks = @ \o <<StreamErrorMessage, Disclaimer>>]
    /\ UNCHANGED <<modVars, chatVars>>

\* Step 3 (llm_provider.py:183-186, 456-460): input screening and the short-circuit
PipeModerateInput ==
    /\ pipe.pc = "moderate"
    /\ pipe.text # <<>>
    /\ ModerateCall(pipe.text)
    /\ UNCHANGED chatVars
    /\ LET r == ModerateContent(modEnabled, modCompiled, pipe.text)
           p == [pipe EXCEPT !.inMod = r, !.stages = Append(@, "moderate_in")]
       IN  pipe' = IF r.action = "block"
                   THEN Deliver(p, SafeResponseForBlockedContent(r.severity))
                   ELSE [p EXCEPT !.pc = "summarize"]

\* Step 4 (llm_provider.py:302-333): skipped, summarized, or failed and recovered
PipeSummarize ==
    /\ pipe.pc = "summarize"
    /\ \/ \E q \in {pipe.text} \cup Summaries :
             pipe' = [pipe EXCEPT !.pc = "retrieve", !.text = q,
                                  !.stages = Append(@, "summarize")]
       \/ pipe' = [pipe EXCEPT !.pc = "retrieve",
                               !.stages = Append(@, "summarize"),
                               !.failed = @ \cup {"summarize"}]
    /\ UNCHANGED <<modVars, chatVars>>

\* Step 5 (llm_provider.py:335-355): the passages only shape the prompt
PipeRetrieve ==
    /\ pipe.pc = "retrieve"
    /\ \E ok \in BOOLEAN :
          pipe' = [pipe EXCEPT !.pc = "generate", !.stages = Append(@, "retrieve"),
                               !.failed = IF ok THEN @ ELSE @ \cup {"retrieve"}]
    /\ UNCHANGED <<modVars, chatVars>>

\* a generation stage that answers its own failure with silence
GenerationOutcomeSilent(fails, text) == IF fails THEN <<>> ELSE text

\* what _generate_final_response returns: the model's text, or the apology of
\* its except branch (llm_provider.py:395-397)
GenerationOutcome(fails, text) == IF fails THEN GenerationApology ELSE text

\* Step 6, batch (llm_provider.py:357-397): the model's text, or the apology
PipeGenerate ==
    /\ pipe.pc = "generate"
    /\ pipe.mode = "batch"
    /\ \E st \in GenStreams, fails \in BOOLEAN :
          pipe' = [pipe EXCEPT !.pc = "moderate_out",
                               !.buf = <<GenerationOutcome(fails, Flatten(st))>>,
                               !.genFails = fails,
                               !.stages = Append(@, "generate")]
    /\ UNCHANGED <<modVars, chatVars>>

\* Step 6, stream (llm_provider.py:468-472, 499-534): the stream is opened; it
\* will yield the chunks of plan and then end, or fail after them
PipeStreamOpen ==
    /\ pipe.pc = "generate"
    /\ pipe.mode = "stream"
    /\ \E st \in GenStreams, fails \in BOOLEAN :
       \E k \in 0..Len(st) :
          /\ (k < Len(st)) => fails
          /\ pipe' = [pipe EXCEPT !.pc = "streaming", !.plan = SubSeq(st, 1, k),
                                  !.genFails = fails,
                                  !.stages = Append(@, "generate")]
    /\ UNCHANGED <<modVars, chatVars>>

\* one chunk of the model's stream is appended to response_chunks and yielded
PipeYieldChunk ==
    /\ pipe.pc = "streaming"
    /\ pipe.plan # <<>>
    /\ pipe' = [pipe EXCEPT !.plan = Tail(@), !.buf = Append(@, Head(pipe.plan)),
                            !.chunks = Append(@, Head(pipe.plan))]
    /\ UNCHANGED <<modVars, chatVars>>

\* the model's stream ends; a failed one yields the apology as a last chunk
PipeStreamEnd ==
    /\ pipe.pc = "streaming"
    /\ pipe.plan = <<>>
    /\ pipe' = IF pipe.genFails
               THEN [pipe EXCEPT !.pc = "moderate_out",
                                 !.buf = Append(@, GenerationApology),
                                 !.chunks = Append(@, GenerationApology)]
               ELSE [pipe EXCEPT !.pc = "moderate_out"]
    /\ UNCHANGED <<modVars, chatVars>>

\* an output screening whose verdict changes nothing
ScreenedOutputKept(action, full) == full

\* Step 7, batch (llm_provider.py:199-200): a blocked output is replaced
ScreenedOutput(action, full) == IF action = "block" THEN OutputBlockedMessage ELSE full

\* Steps 7-9 (llm_provider.py:197-207, 474-492): output screening, emergency
\* resources, disclaimer
PipeFinish ==
    /\ pipe.pc = "moderate_out"
    /\ ModerateCall(Flatten(pipe.buf))
    /\ UNCHANGED chatVars
    /\ LET full == Flatten(pipe.buf)
           out == ModerateContent(modEnabled, modCompiled, full)
           emergency == pipe.inMod.severity = "medical_emergency"
           p == [pipe EXCEPT !.pc = "done", !.stages = Append(@, "moderate_out")]
       IN  pipe' =
             IF pipe.mode = "batch"
             THEN LET r1 == ScreenedOutput(out.action, full)
                      r2 == IF emergency THEN r1 \o EmergencyResources ELSE r1
                  IN  [p EXCEPT !.ret = r2 \o Disclaimer]
             ELSE [p EXCEPT !.chunks =
                      @ \o (IF out.action = "block" THEN <<StreamModeratedNote>> ELSE <<>>)
                        \o (IF emergency THEN <<EmergencyResources>> ELSE <<>>)
                        \o <<Disclaimer>>]

\* the text _dev_mode_response screens and answers
DevProcessedText(p) ==
    LET t1 == IF p.audio THEN CombineTextInputs(p.text, DevTranscribed) ELSE p.text
    IN  IF p.image THEN CombineTextInputs(t1, DevImageAnalysis) ELSE t1

\* what _dev_mode_response returns (llm_provider.py:536-570)
DevModeResponse(p, enabled, compiled) ==
    LET processed == DevProcessedText(p)
        r == ModerateContent(enabled, compiled, processed)
        response == DevResponses[p.hash]
    IN  IF processed # <<>> /\ r.action = "block"
        THEN SafeResponseForBlockedContent(r.severity)
        ELSE (IF processed # <<>> /\ r.severity = "medical_emergency"
              THEN response \o EmergencyResources ELSE response) \o Disclaimer

\* the stages _dev_mode_response invokes
DevModeStages(p, enabled, compiled) ==
    LET processed == DevProcessedText(p)
        r == ModerateContent(enabled, compiled, processed)
    IN  (IF p.audio THEN <<"transcribe">> ELSE <<>>)
        \o (IF p.image THEN <<"vision">> ELSE <<>>)
        \o (IF processed = <<>> THEN <<"generate">>
            ELSE IF r.action = "block" THEN <<"moderate_in">>
            ELSE <<"moderate_in", "generate", "moderate_in">>)

\* the statistics after _dev_mode_response: the input is screened once when it
\* is blocked, twice when it is not, never when it is empty
DevModeStats(p, stats, enabled, compiled) ==
    LET processed == DevProcessedText(p)
        r == ModerateContent(enabled, compiled, processed)
        s1 == StatsAfterModerate(stats, enabled, compiled, processed)
    IN  IF processed = <<>> THEN stats
        ELSE IF r.action = "block" THEN s1
        ELSE StatsAfterModerate(s1, enabled, compiled, processed)

\* offline mode: _dev_mode_response, returned (batch) or handed to the chunker
\* of _dev_mode_stream (stream)
PipeDevResponse ==
    /\ pipe.pc = "dev"
    /\ LET processed == DevProcessedText(pipe)
           r == ModerateContent(modEnabled, modCompiled, processed)
           full == DevModeResponse(pipe, modEnabled, modCompiled)
           p == [pipe EXCEPT !.stages = DevModeStages(pipe, modEnabled, modCompiled),
                             !.inMod = IF processed = <<>> THEN NoResult ELSE r]
       IN  /\ pipe' = IF pipe.mode = "batch"
                      THEN [p EXCEPT !.pc = "done", !.ret = full]
                      ELSE [p EXCEPT !.pc = "dev_streaming", !.plan = DevStreamChunks(full)]
           /\ modStats' = DevModeStats(pipe, modStats, modEnabled, modCompiled)
           /\ modContent' = IF processed = <<>> THEN modContent ELSE processed
           /\ modResult' = IF processed = <<>> THEN modResult ELSE r
           /\ UNCHANGED <<modRules, modSource, modCompiled, modEnabled, chatVars>>

\* _dev_mode_stream yields one chunk
PipeDevYield ==
    /\ pipe.pc = "dev_streaming"
    /\ pipe.plan # <<>>
    /\ pipe' = [pipe EXCEPT !.plan = Tail(@), !.chunks = Append(@, Head(pipe.plan)),
                            !.pc = IF Tail(pipe.plan) = <<>> THEN "done" ELSE @]
    /\ UNCHANGED <<modVars, chatVars>>

---------------------------------------------------------------------------
(* ChatManager, WebSocketStreamer and StreamCache (chat_manager.py), and the
   WebSocket handlers of stream.py.

   Two calls of handle_user_message run on the event loop, each on its own
   database session; they interleave at their await points.  Both address the
   same conversation.  A call of kind "ws" comes from the WebSocket wrapper
   handle_user_message of stream.py and owns a connection; a call of kind
   "batch" comes without a streamer.

   ConversationCRUD.get_by_id is the repository lookup.  Its outcomes are a
   conversation of the caller ("owned"), a conversation of somebody else
   ("other"), no conversation ("none") and an exception ("raises").  The call
   sites at chat_manager.py:110, chat_manager.py:328 and stream.py:123 pass
   two arguments to the three-parameter static method of
   crud/conversation.py:19, so with that definition bound the outcome is
   always "raises" (a TypeError); the other outcomes are those of a lookup
   that accepts the call, which is what the test-suite binds. *)

Calls == {"c1", "c2"}

NoId == "-"

ClientMessageIds == {"k1"}

Convs == {"v1", "v2"}

\* the conversation both calls address
TheConv == "v1"

UserMsgId(c) == IF c = "c1" THEN "u1" ELSE "u2"

\* assistant_message_id = str(uuid.uuid4()) (chat_manager.py:136)
AsstMsgId(c) == IF c = "c1" THEN "a1" ELSE "a2"

AsstIds == {AsstMsgId(c) : c \in Calls}

\* what process_pipeline_stream yields to the chat manager, chunk by chunk
StreamPlans == {<<>>, << <<"p">> >>, << <<"p">>, <<"q">> >>}

\* what process_pipeline returns to the chat manager
BatchAnswer == <<"p", "q">>

LookupOutcomes == {"owned", "other", "none", "raises"}

IncompleteNote == <<NL, NL, "[Response incomplete due to technical error]">>

NoDisc == [set |-> FALSE, at |-> 0, text |-> <<>>]

CallIdle ==
    [pc |-> "idle", kind |-> "batch", cmid |-> NoId, open |-> FALSE,
     lookup |-> "-", plan |-> <<>>, fails |-> FALSE, full |-> <<>>,
     stages |-> 0, count |-> 0, result |-> "none", frames |-> <<>>,
     prior |-> FALSE, disc |-> NoDisc, text |-> <<>>]

Frame(type, id, data) == [type |-> type, id |-> id, data |-> data]

ErrorFrame(text) == Frame("error", NoId, <<text>>)

\* a streamer none of whose frames leaves the server
SendDropped(k, fs) == k

\* a streamer whose newest frame overtakes the frames sent before it
SendOvertaking(k, fs) == IF k.kind = "ws" /\ k.open THEN [k EXCEPT !.frames = fs \o @] ELSE k

\* WebSocketStreamer.send_chunk / send_done / send_error: websocket.send_json,
\* whose exception on a closed connection is caught and logged
Send(k, fs) == IF k.kind = "ws" /\ k.open THEN [k EXCEPT !.frames = @ \o fs] ELSE k

\* a handler that swallows its exception and returns
HandlerExitSwallow(failed) == "ok"

\* how handle_user_message ends: the return at chat_manager.py:164-169, or the
\* re-raise at chat_manager.py:175
HandlerExit(failed) == IF failed THEN "raised" ELSE "ok"

\* the keys of the dictionary handle_user_message returns: for a duplicate
\* (chat_manager.py:122), and at the end of a turn (chat_manager.py:164-169)
ResultKeys(result) ==
    IF result = "duplicate" THEN {"message_id", "duplicate"}
    ELSE IF result = "ok"
    THEN {"user_message_id", "assistant_message_id", "response", "conversation_id"}
    ELSE {}

\* the keys create_chat_message reads from that dictionary (messages.py:490-497)
RouteReadKeys == {"user_message_id", "assistant_message_id", "response", "conversation_id"}

\* the HTTP status create_chat_message answers with once the chat manager has
\* returned or raised: 201, or 500 from the except clause (messages.py:501-506),
\* which also catches the KeyError of a missing key
ChatRouteStatus(result) ==
    IF result \in {"ok", "duplicate"} /\ RouteReadKeys \subseteq ResultKeys(result)
    THEN 201 ELSE 500

\* the keys of the response body (messages.py:490-497, 503-506)
ChatRouteBody(result) ==
    IF ChatRouteStatus(result) = 201
    THEN {"success", "message"} \cup RouteReadKeys
    ELSE {"detail"}

\* the except branch of ChatManager.handle_user_message (chat_manager.py:171-175)
\* and, for a WebSocket call, the except branch of the wrapper (stream.py:223-225)
Raise(k) ==
    [Send(k, <<ErrorFrame("Processing error"), ErrorFrame("Message processing failed")>>)
        EXCEPT !.pc = "ended", !.result = HandlerExit(TRUE)]

\* a duplicate check that never finds anything
CheckDuplicateNever(msgs, cmid) == {}

\* _check_duplicate_message: the messages of the conversation whose metadata
\* carry the client_message_id
CheckDuplicateMessage(msgs, cmid) == {m \in msgs : m.cmid = cmid}

\* the Message of _create_user_message (chat_manager.py:260-266)
UserMessage(c, cmid, text) ==
    [id |-> UserMsgId(c), sender |-> "user", cmid |-> cmid, by |-> c,
     status |-> "sent", content |-> text]

\* an assistant message stored under an id of its own: message_id not passed on
AssistantMessageOwnId(c, content, status) ==
    [id |-> "fresh", sender |-> "assistant", cmid |-> NoId, by |-> c,
     status |-> status, content |-> content]

\* the Message of _create_assistant_message (chat_manager.py:284-291)
AssistantMessage(c, content, status) ==
    [id |-> AsstMsgId(c), sender |-> "assistant", cmid |-> NoId, by |-> c,
     status |-> status, content |-> content]

\* StreamCache ---------------------------------------------------------------

\* ttl: int = 30
StreamTTL == 30

CacheKeys == Convs \X AsstIds

NoEntry == [present |-> FALSE, content |-> <<>>, expires |-> 0]

\* a lookup that takes every entry for live
GetStreamIgnoringExpiry(ch, key, t) ==
    [hit |-> ch[key].present, content |-> ch[key].content]

\* StreamCache.get_stream: its return value (hit = FALSE is None)
GetStream(ch, key, t) ==
    IF ch[key].present /\ t < ch[key].expires
    THEN [hit |-> TRUE, content |-> ch[key].content]
    ELSE [hit |-> FALSE, content |-> <<>>]

\* StreamCache.get_stream: the cache it leaves (an expired entry is deleted)
CacheAfterGet(ch, key, t) ==
    IF ch[key].present /\ ~(t < ch[key].expires)
    THEN [ch EXCEPT ![key] = NoEntry] ELSE ch

\* a sweep that empties the cache
CacheAfterCleanupAll(ch, t) == [key \in CacheKeys |-> NoEntry]

\* StreamCache.cleanup_expired
CacheAfterCleanup(ch, t) ==
    [key \in CacheKeys |->
        IF ch[key].present /\ t >= ch[key].expires THEN NoEntry ELSE ch[key]]

NoResume ==
    [handled |-> FALSE, conv |-> TheConv, id |-> NoId, at |-> 0,
     entry |-> NoEntry, alive |-> FALSE, frames |-> <<>>]

\* websocket_endpoint (stream.py) ----------------------------------------------

Sockets == {"s1", "s2"}

NoSocket == "-"

\* connection_key = f"{user_id}:{conversation_id}" (stream.py:35); the
\* connections of the model are all of one user to one conversation
ConnectionKey == "u1:v1"

ConnectionKeys == {ConnectionKey}

\* get_current_user_from_token (stream.py:62-92): a User, or None because the
\* token does not verify, names no user, or the lookup raised
TokenOutcomes == {"user", "invalid", "unknown_user", "error"}

ConnFresh ==
    [state |-> "connecting", token |-> "-", lookup |-> "-", code |-> 0,
     accepted |-> FALSE, open |-> FALSE, received |-> 0, last |-> "-",
     cur |-> NoId, turns |-> <<>>, frames |-> <<>>]

\* the close code of the admission checks (stream.py:116-130); 0 when both pass
AdmissionCode(tok, outcome) ==
    IF tok # "user" THEN 4001
    ELSE IF outcome = "raises" THEN 4000
    ELSE IF outcome # "owned" THEN 4003
    ELSE 0

\* a registry that keeps the connection it already holds for the key
RegisterIfAbsent(reg, s) ==
    IF reg[ConnectionKey] = NoSocket THEN [reg EXCEPT ![ConnectionKey] = s] ELSE reg

\* ConnectionManager.connect: the accepted socket is stored under the key
Register(reg, s) == [reg EXCEPT ![ConnectionKey] = s]

\* ConnectionManager.disconnect: the key is deleted, whoever holds it
Unregister(reg) == [reg EXCEPT ![ConnectionKey] = NoSocket]

ChatQuiet ==
    /\ call = [c \in Calls |-> CallIdle]
    /\ messages = {}
    /\ msgCount = 0
    /\ cache = [key \in CacheKeys |-> NoEntry]
    /\ now = 0
    /\ resume = NoResume
    /\ conn = [s \in Sockets |-> ConnFresh]
    /\ registry = [key \in ConnectionKeys |-> NoSocket]

\* ChatManager.handle_user_message ---------------------------------------------

\* a frame {"type": "message"} arrives (stream.py:155-163), or the batch route
\* calls the chat manager; a WebSocket frame without text is refused by the
\* wrapper (stream.py:203-205)
CallStartText(c, kind, cmid, text) ==
    /\ call[c].pc = "idle"
    /\ kind = "batch" => text # <<>>
    /\ LET k == [CallIdle EXCEPT
                    !.kind = kind, !.cmid = cmid, !.open = (kind = "ws"),
                    !.text = text,
                    !.prior = (cmid # NoId /\ \E d \in Calls \ {c} :
                                  call[d].cmid = cmid /\ call[d].result = "ok")]
       IN  call' = [call EXCEPT ![c] =
                IF text # <<>> THEN [k EXCEPT !.pc = "lookup"]
                ELSE [Send(k, <<ErrorFrame("Message text is required")>>)
                         EXCEPT !.pc = "ended", !.result = "rejected"]]
    /\ UNCHANGED <<messages, msgCount, cache, now, resume, provVars>>

\* the text of a message when only its presence matters
OrdinaryText == <<"a">>

\* the same arrival, told only whether the message has a text
CallStart(c, kind, cmid, hasText) ==
    CallStartText(c, kind, cmid, IF hasText THEN OrdinaryText ELSE <<>>)

\* an ownership check that lets the conversation of another user pass
LookupAnyOwner(c, outcome) ==
    /\ call[c].pc = "lookup"
    /\ LET k == [call[c] EXCEPT !.lookup = outcome]
       IN  call' = [call EXCEPT ![c] =
                IF outcome \in {"owned", "other"}
                THEN [k EXCEPT !.pc = IF k.cmid # NoId THEN "dupcheck" ELSE "create_user"]
                ELSE IF outcome = "raises" THEN Raise(k)
                ELSE Raise(Send(k, <<ErrorFrame("Conversation not found or access denied")>>))]
    /\ UNCHANGED <<messages, msgCount, cache, now, resume, provVars, connVars>>

\* chat_manager.py:110-115
Lookup(c, outcome) ==
    /\ call[c].pc = "lookup"
    /\ LET k == [call[c] EXCEPT !.lookup = outcome]
       IN  call' = [call EXCEPT ![c] =
                IF outcome = "owned"
                THEN [k EXCEPT !.pc = IF k.cmid # NoId THEN "dupcheck" ELSE "create_user"]
                ELSE IF outcome = "raises" THEN Raise(k)
                ELSE Raise(Send(k, <<ErrorFrame("Conversation not found or access denied")>>))]
    /\ UNCHANGED <<messages, msgCount, cache, now, resume, provVars, connVars>>

\* chat_manager.py:117-122, and the wrapper's reply to a duplicate (stream.py:217-219)
DupCheck(c) ==
    /\ call[c].pc = "dupcheck"
    /\ call' = [call EXCEPT ![c] =
            IF CheckDuplicateMessage(messages, call[c].cmid) # {}
            THEN [Send(call[c], <<ErrorFrame("Duplicate message ignored")>>)
                     EXCEPT !.pc = "ended", !.result = "duplicate"]
            ELSE [call[c] EXCEPT !.pc = "create_user"]]
    /\ UNCHANGED <<messages, msgCount, cache, now, resume, provVars, connVars>>

\* _create_user_message: the commit succeeds or raises
CreateUser(c, ok) ==
    /\ call[c].pc = "create_user"
    /\ IF ok
       THEN /\ messages' = messages \cup {UserMessage(c, call[c].cmid, call[c].text)}
            /\ call' = [call EXCEPT ![c].pc =
                            IF call[c].kind = "ws" THEN "stream" ELSE "pipeline"]
       ELSE /\ call' = [call EXCEPT ![c] = Raise(call[c])]
            /\ UNCHANGED messages
    /\ UNCHANGED <<msgCount, cache, now, resume, provVars, connVars>>

\* batch: provider.process_pipeline (chat_manager.py:148-152)
Pipeline(c) ==
    /\ call[c].pc = "pipeline"
    /\ call' = [call EXCEPT ![c].pc = "create_asst", ![c].stages = @ + 1,
                            ![c].full = <<BatchAnswer>>]
    /\ UNCHANGED <<messages, msgCount, cache, now, resume, provVars, connVars>>

\* batch: _create_assistant_message (chat_manager.py:155-159)
CreateAssistant(c, ok) ==
    /\ call[c].pc = "create_asst"
    /\ IF ok
       THEN /\ messages' = messages \cup {AssistantMessage(c, Flatten(call[c].full), "sent")}
            /\ call' = [call EXCEPT ![c].pc = "count"]
       ELSE /\ call' = [call EXCEPT ![c] = Raise(call[c])]
            /\ UNCHANGED messages
    /\ UNCHANGED <<msgCount, cache, now, resume, provVars, connVars>>

\* streaming: the stream of process_pipeline_stream is opened; it yields plan
\* and ends, or raises after it
StreamOpen(c, plan, fails) ==
    /\ call[c].pc = "stream"
    /\ call' = [call EXCEPT ![c].pc = "streaming", ![c].stages = @ + 1,
                            ![c].plan = plan, ![c].fails = fails]
    /\ UNCHANGED <<messages, msgCount, cache, now, resume, provVars, connVars>>

\* one turn of the loop at chat_manager.py:193-202
StreamChunk(c) ==
    /\ call[c].pc = "streaming"
    /\ call[c].plan # <<>>
    /\ LET chunk == Head(call[c].plan)
       IN  call' = [call EXCEPT ![c] =
                [Send(call[c], <<Frame("chunk", AsstMsgId(c), chunk)>>)
                    EXCEPT !.plan = Tail(@), !.full = Append(@, chunk)]]
    /\ UNCHANGED <<messages, msgCount, cache, now, resume, provVars, connVars>>

\* the stream ends: send_done (chat_manager.py:205), or the exception is caught
StreamEnd(c) ==
    /\ call[c].pc = "streaming"
    /\ call[c].plan = <<>>
    /\ call' = [call EXCEPT ![c] =
            IF call[c].fails THEN [call[c] EXCEPT !.pc = "stream_except"]
            ELSE [Send(call[c], <<Frame("done", AsstMsgId(c), Flatten(call[c].full))>>)
                     EXCEPT !.pc = "persist_stream"]]
    /\ UNCHANGED <<messages, msgCount, cache, now, resume, provVars, connVars>>

\* streaming: _create_assistant_message (chat_manager.py:208-212)
PersistStream(c, ok) ==
    /\ call[c].pc = "persist_stream"
    /\ IF ok
       THEN /\ messages' = messages \cup {AssistantMessage(c, Flatten(call[c].full), "sent")}
            /\ call' = [call EXCEPT ![c].pc = "count"]
       ELSE /\ call' = [call EXCEPT ![c].pc = "stream_except"]
            /\ UNCHANGED messages
    /\ UNCHANGED <<msgCount, cache, now, resume, provVars, connVars>>

\* the except branch of _handle_streaming_response (chat_manager.py:216-230):
\* an error frame, the partial text persisted as incomplete, and the re-raise
StreamExcept(c, ok) ==
    /\ call[c].pc = "stream_except"
    /\ LET k == Send(call[c], <<ErrorFrame("Stream interrupted due to technical difficulties")>>)
       IN  /\ call' = [call EXCEPT ![c] = Raise(k)]
           /\ messages' =
                IF call[c].full # <<>> /\ ok
                THEN messages \cup
                        {AssistantMessage(c, Flatten(call[c].full) \o IncompleteNote, "incomplete")}
                ELSE messages
    /\ UNCHANGED <<msgCount, cache, now, resume, provVars, connVars>>

\* _update_conversation_stats, the count query (chat_manager.py:320-325)
CountMessages(c) ==
    /\ call[c].pc = "count"
    /\ call' = [call EXCEPT ![c].pc = "stats", ![c].count = Cardinality(messages)]
    /\ UNCHANGED <<messages, msgCount, cache, now, resume, provVars, connVars>>

\* _update_conversation_stats, the update (chat_manager.py:328-334), whose
\* exceptions are logged; then the return at chat_manager.py:164-169
UpdateConversationStats(c, outcome) ==
    /\ call[c].pc = "stats"
    /\ msgCount' = IF outcome \in {"owned", "other"} THEN call[c].count ELSE msgCount
    /\ call' = [call EXCEPT ![c].pc = "ended", ![c].result = HandlerExit(FALSE)]
    /\ UNCHANGED <<messages, cache, now, resume, provVars, connVars>>

\* a transport loss that ends the turn where it stands
ClientDisconnectCancels(c) ==
    /\ call[c].kind = "ws"
    /\ call[c].open
    /\ call[c].pc # "ended"
    /\ call' = [call EXCEPT ![c].open = FALSE, ![c].pc = "ended", ![c].result = "cancelled"]
    /\ UNCHANGED <<messages, msgCount, cache, now, resume, provVars, connVars>>

\* the client of a WebSocket call goes away; the handler is inside the turn and
\* does not notice
ClientDisconnect(c) ==
    /\ call[c].kind = "ws"
    /\ call[c].open
    /\ call[c].pc # "ended"
    /\ call' = [call EXCEPT ![c].open = FALSE,
                            ![c].disc = IF call[c].pc = "streaming" /\ call[c].full # <<>>
                                        THEN [set |-> TRUE, at |-> now, text |-> Flatten(call[c].full)]
                                        ELSE @]
    /\ UNCHANGED <<messages, msgCount, cache, now, resume, provVars, connVars>>

\* handle_resume_request (stream.py:228-259) on a fresh connection, of whose
\* sends the first n reach the client
Resume(conv, lastId, n) ==
    LET key == <<conv, lastId>>
        got == IF lastId # NoId THEN GetStream(cache, key, now)
               ELSE [hit |-> FALSE, content |-> <<>>]
        replies == IF got.hit /\ got.content # <<>>
                   THEN <<Frame("chunk", lastId, got.content), Frame("done", lastId, got.content)>>
                   ELSE <<Frame("resume_ack", NoId, <<>>)>>
    IN  /\ n <= Len(replies)
        /\ cache' = IF lastId # NoId THEN CacheAfterGet(cache, key, now) ELSE cache
        /\ resume' = [handled |-> TRUE, conv |-> conv, id |-> lastId, at |-> now,
                      entry |-> IF lastId # NoId THEN cache[key] ELSE NoEntry,
                      alive |-> (n = Len(replies)), frames |-> SubSeq(replies, 1, n)]
        /\ UNCHANGED <<call, messages, msgCount, now, provVars>>

\* the client of a call whose connection was lost connects again and asks to
\* resume the turn
Reconnect(c, n) ==
    /\ call[c].kind = "ws"
    /\ call[c].pc # "idle"
    /\ ~call[c].open
    /\ Resume(TheConv, AsstMsgId(c), n)
    /\ UNCHANGED connVars

ModQuiet ==
    /\ modRules = EmptyRules
    /\ modSource = "ok"
    /\ modCompiled = CompilePatterns(EmptyRules)
    /\ modEnabled = TRUE
    /\ modStats = ZeroStats
    /\ modContent = <<>>
    /\ modResult = NoResult
    /\ pipe = PipeIdle

Init == ModQuiet /\ ChatQuiet

Next ==
    \/ \E c \in Calls :
        \/ \E kind \in {"ws", "batch"}, cmid \in ClientMessageIds \cup {NoId},
              hasText \in BOOLEAN :
                CallStart(c, kind, cmid, hasText) /\ UNCHANGED connVars
        \/ \E outcome \in LookupOutcomes : Lookup(c, outcome)
        \/ DupCheck(c)
        \/ \E ok \in BOOLEAN : CreateUser(c, ok)
        \/ Pipeline(c)
        \/ \E ok \in BOOLEAN : CreateAssistant(c, ok)
        \/ \E plan \in StreamPlans, fails \in BOOLEAN : StreamOpen(c, plan, fails)
        \/ StreamChunk(c)
        \/ StreamEnd(c)
        \/ \E ok \in BOOLEAN : PersistStream(c, ok)
        \/ \E ok \in BOOLEAN : StreamExcept(c, ok)
        \/ CountMessages(c)
        \/ \E outcome \in LookupOutcomes : UpdateConversationStats(c, outcome)
        \/ ClientDisconnect(c)
        \/ \E n \in 0..2 : Reconnect(c, n)

Spec == Init /\ [][Next]_vars

\* StreamCache driven through its public methods ------------------------------

CacheContents == {<<>>, <<"p">>}

MaxNow == 30

\* StreamCache.store_stream with the default ttl
StoreStream(conv, id, content) ==
    /\ cache' = [cache EXCEPT ![<<conv, id>>] =
                    [present |-> TRUE, content |-> content, expires |-> now + StreamTTL]]
    /\ UNCHANGED <<call, messages, msgCount, now, resume, provVars, connVars>>

\* time passes
Tick(d) ==
    /\ now + d <= MaxNow
    /\ now' = now + d
    /\ UNCHANGED <<call, messages, msgCount, cache, resume, provVars, connVars>>

\* cleanup_expired_cache (stream.py:263-271) runs StreamCache.cleanup_expired
CleanupExpired ==
    /\ cache' = CacheAfterCleanup(cache, now)
    /\ UNCHANGED <<call, messages, msgCount, now, resume, provVars, connVars>>

CacheNext ==
    \/ \E conv \in Convs, id \in AsstIds, content \in CacheContents :
          StoreStream(conv, id, content)
    \/ \E d \in {StreamTTL - 1, StreamTTL} : Tick(d)
    \/ CleanupExpired
    \/ \E conv \in Convs, lastId \in AsstIds \cup {NoId}, n \in 0..2 :
          Resume(conv, lastId, n) /\ UNCHANGED connVars

CacheSpec == Init /\ [][CacheNext]_vars

\* websocket_endpoint driven by one client ---------------------------------------

\* inbound frames taken from one connection
MaxInbound == 2

\* the connections whose client sends frames
Speakers == {"s1"}

\* an endpoint that takes the next frame while a turn is still running
ReceivingAnytime(s) ==
    /\ conn[s].state \in {"waiting", "in_turn"}
    /\ conn[s].open
    /\ conn[s].received < MaxInbound

\* the loop is at receive_text (stream.py:141-144): the previous frame's
\* handler has been awaited to its end
Receiving(s) ==
    /\ conn[s].state = "waiting"
    /\ conn[s].open
    /\ conn[s].received < MaxInbound

Received(k, kind) == [k EXCEPT !.received = @ + 1, !.last = kind]

\* the endpoint leaves its loop: the finally clause (stream.py:184-185)
Leave(k) == [k EXCEPT !.state = "closed", !.open = FALSE]

\* stream.py:116-133: the token, the conversation, then close or manager.connect
Admit(s, tok, outcome) ==
    /\ conn[s].state = "connecting"
    /\ LET code == AdmissionCode(tok, outcome)
       IN  /\ conn' = [conn EXCEPT ![s] =
                    [@ EXCEPT !.token = tok,
                              !.lookup = IF tok = "user" THEN outcome ELSE "-",
                              !.code = code, !.accepted = (code = 0), !.open = (code = 0),
                              !.state = IF code = 0 THEN "waiting" ELSE "closed"]]
           /\ registry' = IF code = 0 THEN Register(registry, s) ELSE registry
    /\ UNCHANGED <<call, messages, msgCount, cache, now, resume, provVars>>

\* text that json.loads rejects (stream.py:145-147)
ConnInvalidJson(s) ==
    /\ Receiving(s)
    /\ conn' = [conn EXCEPT ![s] =
            [Received(@, "invalid_json") EXCEPT
                !.frames = @ \o <<ErrorFrame("Invalid JSON format")>>]]
    /\ UNCHANGED <<registry, call, messages, msgCount, cache, now, resume, provVars>>

\* JSON that is not an object: message.get raises AttributeError (stream.py:153),
\* which the outer handler logs (stream.py:182-185)
ConnNotObject(s) ==
    /\ Receiving(s)
    /\ conn' = [conn EXCEPT ![s] = Leave(Received(@, "not_object"))]
    /\ registry' = Unregister(registry)
    /\ UNCHANGED <<call, messages, msgCount, cache, now, resume, provVars>>

\* an object whose type is missing or none of message, resume, ping
\* (stream.py:177-178)
ConnUnknownType(s) ==
    /\ Receiving(s)
    /\ conn' = [conn EXCEPT ![s] =
            [Received(@, "unknown_type") EXCEPT
                !.frames = @ \o <<ErrorFrame("Unknown message type")>>]]
    /\ UNCHANGED <<registry, call, messages, msgCount, cache, now, resume, provVars>>

\* stream.py:173-175
ConnPing(s) ==
    /\ Receiving(s)
    /\ conn' = [conn EXCEPT ![s] =
            [Received(@, "ping") EXCEPT !.frames = @ \o <<Frame("pong", NoId, <<>>)>>]]
    /\ UNCHANGED <<registry, call, messages, msgCount, cache, now, resume, provVars>>

\* stream.py:165-171
ConnResume(s, lastId) ==
    /\ Receiving(s)
    /\ \E n \in 1..2 :
        /\ Resume(TheConv, lastId, n)
        /\ resume'.alive
    /\ conn' = [conn EXCEPT ![s] =
            [Received(@, "resume") EXCEPT !.frames = @ \o resume'.frames]]
    /\ UNCHANGED registry

\* the call that serves the next message frame
NextCall == IF call["c1"].pc = "idle" THEN "c1" ELSE "c2"

\* stream.py:155-163: the turn of a message frame starts, on the first call
\* that is still unused
ConnMessage(s, c, cmid, hasText) ==
    /\ Receiving(s)
    /\ c = NextCall
    /\ CallStart(c, "ws", cmid, hasText)
    /\ conn' = [conn EXCEPT ![s] =
            [Received(@, "message") EXCEPT !.state = "in_turn", !.cur = c]]
    /\ UNCHANGED registry

\* an endpoint that gives up the connection when the turn has raised
TurnEndClosing(s) ==
    /\ conn[s].state = "in_turn"
    /\ call[conn[s].cur].pc = "ended"
    /\ conn' = [conn EXCEPT ![s] =
            [@ EXCEPT !.state = IF call[conn[s].cur].result = "raised" THEN "closed"
                                ELSE "waiting",
                      !.cur = NoId,
                      !.turns = Append(@, conn[s].cur),
                      !.open = call[conn[s].cur].open /\ call[conn[s].cur].result # "raised"]]
    /\ registry' = IF call[conn[s].cur].result = "raised" THEN Unregister(registry)
                   ELSE registry
    /\ UNCHANGED <<call, messages, msgCount, cache, now, resume, provVars>>

\* handle_user_message has returned (stream.py:188-225) and the loop goes back
\* to receive_text
TurnEnd(s) ==
    /\ conn[s].state = "in_turn"
    /\ call[conn[s].cur].pc = "ended"
    /\ conn' = [conn EXCEPT ![s] =
            [@ EXCEPT !.state = "waiting", !.cur = NoId,
                      !.turns = Append(@, conn[s].cur),
                      !.open = call[conn[s].cur].open]]
    /\ UNCHANGED <<registry, call, messages, msgCount, cache, now, resume, provVars>>

\* receive_text raises because the client is gone (stream.py:148-150), and the
\* finally clause runs
ConnLost(s) ==
    /\ conn[s].state = "waiting"
    /\ conn' = [conn EXCEPT ![s] = Leave(@)]
    /\ registry' = Unregister(registry)
    /\ UNCHANGED <<call, messages, msgCount, cache, now, resume, provVars>>

\* one step of the turn a connection is in
TurnStep(c) ==
    \/ \E outcome \in LookupOutcomes : Lookup(c, outcome)
    \/ DupCheck(c)
    \/ \E ok \in BOOLEAN : CreateUser(c, ok)
    \/ \E plan \in StreamPlans, fails \in BOOLEAN : StreamOpen(c, plan, fails)
    \/ StreamChunk(c)
    \/ StreamEnd(c)
    \/ \E ok \in BOOLEAN : PersistStream(c, ok)
    \/ \E ok \in BOOLEAN : StreamExcept(c, ok)
    \/ CountMessages(c)
    \/ \E outcome \in LookupOutcomes : UpdateConversationStats(c, outcome)

\* the frames a client sends, and the return of the turn they start
ClientFrames(s) ==
    \/ ConnInvalidJson(s)
    \/ ConnNotObject(s)
    \/ ConnUnknownType(s)
    \/ ConnPing(s)
    \/ \E lastId \in AsstIds \cup {NoId} : ConnResume(s, lastId)
    \/ \E c \in Calls, cmid \in ClientMessageIds \cup {NoId}, hasText \in BOOLEAN :
          ConnMessage(s, c, cmid, hasText)
    \/ TurnEnd(s)

ConnNext ==
    \/ \E s \in Sockets :
        \/ \E tok \in TokenOutcomes, outcome \in LookupOutcomes : Admit(s, tok, outcome)
        \/ ConnLost(s)
    \/ \E s \in Speakers : ClientFrames(s)
    \/ \E c \in Calls :
        \/ TurnStep(c)
        \/ ClientDisconnect(c)

ConnSpec == Init /\ [][ConnNext]_vars

\* one connection on its own
SoloNext ==
    \/ \E s \in Speakers :
        \/ \E tok \in TokenOutcomes, outcome \in LookupOutcomes : Admit(s, tok, outcome)
        \/ ConnLost(s)
        \/ ClientFrames(s)
    \/ \E c \in Calls :
        \/ TurnStep(c)
        \/ ClientDisconnect(c)

\* the event loop resumes a handler whose awaited call has returned or raised,
\* and every awaited call (model, retrieval, storage) does one or the other
TurnFairSpec ==
    /\ Init
    /\ [][SoloNext]_vars
    /\ WF_vars(\E c \in Calls : TurnStep(c))
    /\ WF_vars(\E s \in Speakers : TurnEnd(s))

\* ChatManager with a rule set loaded: one call at a time ----------------------

\* rule sets with a blocking tier and a flagging tier
ScreenRuleSets ==
    { [EmptyRules EXCEPT !["high"] = << <<"a">> >>, !["medium"] = << <<"b">> >>],
      [EmptyRules EXCEPT !["high"] = << <<"a">> >>, !["medical_emergency"] = << <<"b">> >>] }

\* the texts sent: one with the blocking term, one with the flagging term, one
\* with the blocking term in upper case after a blank, and one that holds the
\* terms inside a longer word only
ScreenTexts == {<<"a">>, <<"b">>, <<" ", "A">>, <<"a", "b">>}

ScreenInit ==
    /\ modRules \in ScreenRuleSets
    /\ modSource = "ok"
    /\ modCompiled = CompilePatterns(modRules)
    /\ modEnabled = TRUE
    /\ modStats = ZeroStats
    /\ modContent = <<>>
    /\ modResult = NoResult
    /\ pipe = PipeIdle
    /\ ChatQuiet

ScreenNext ==
    \E c \in {"c1"} :
        \/ \E kind \in {"ws", "batch"}, cmid \in ClientMessageIds \cup {NoId},
              text \in ScreenTexts :
                CallStartText(c, kind, cmid, text) /\ UNCHANGED connVars
        \/ TurnStep(c)
        \/ Pipeline(c)
        \/ \E ok \in BOOLEAN : CreateAssistant(c, ok)
        \/ ClientDisconnect(c)

ScreenSpec == ScreenInit /\ [][ScreenNext]_vars

---------------------------------------------------------------------------
(* LLMProvider on its own *)

\* the rule set and the configuration the pipeline runs under
PipeRules ==
    [EmptyRules EXCEPT !["high"] = << <<"a">> >>, !["medical_emergency"] = << <<"b">> >>]

PipeInit ==
    /\ modRules = PipeRules
    /\ modSource = "ok"
    /\ modCompiled = CompilePatterns(modRules)
    /\ modEnabled \in BOOLEAN
    /\ modStats = ZeroStats
    /\ modContent = <<>>
    /\ modResult = NoResult
    /\ pipe = PipeIdle
    /\ ChatQuiet

PipeNext ==
    \/ \E mode \in {"batch", "stream"}, dev \in BOOLEAN, text \in PipeTexts,
          audio \in BOOLEAN, image \in BOOLEAN, h \in 1..Len(DevResponses) :
          PipeStart(mode, dev, text, audio, image, h)
    \/ PipeAudio
    \/ PipeImage
    \/ PipeNoText
    \/ PipeModerateInput
    \/ PipeSummarize
    \/ PipeRetrieve
    \/ PipeGenerate
    \/ PipeStreamOpen
    \/ PipeYieldChunk
    \/ PipeStreamEnd
    \/ PipeFinish
    \/ PipeDevResponse
    \/ PipeDevYield

PipeSpec == PipeInit /\ [][PipeNext]_vars

---------------------------------------------------------------------------
(* ModerationService on its own *)

\* ModerationService.__init__
ModInit ==
    /\ modRules \in RuleSets
    /\ modSource = "ok"
    /\ modCompiled = CompilePatterns(modRules)
    /\ modEnabled \in BOOLEAN
    /\ modStats = ZeroStats
    /\ modContent = <<>>
    /\ modResult = NoResult
    /\ pipe = PipeIdle
    /\ ChatQuiet

\* one call of moderate_content(content)
Moderate(content) ==
    /\ modStats["total_checks"] < MaxChecks
    /\ ModerateCall(content)
    /\ UNCHANGED <<pipe, chatVars>>

ModNext == \E content \in Texts : Moderate(content)

ModSpec == ModInit /\ [][ModNext]_vars

---------------------------------------------------------------------------
(* ModerationService with its rule file: construction and reload_rules *)

\* the ways _load_rules fails to read the rule file: open() raises
\* FileNotFoundError, open() or read raises another error, json.load raises
\* JSONDecodeError (moderation.py:82-91)
FailedSources == {"missing", "unreadable", "invalid_json"}

\* the keyword lists a readable rule file may hold
ReloadRuleSets ==
    { EmptyRules,
      [EmptyRules EXCEPT !["high"] = << <<"a">> >>, !["medium"] = << <<"b">> >>],
      [EmptyRules EXCEPT !["medical_emergency"] = << <<"a">> >>, !["low"] = << <<"b">> >>] }

\* the states of the rule file a load can find: its condition, and the
\* keyword lists it holds when it parses
RuleFiles ==
    {[state |-> "ok", rules |-> r] : r \in ReloadRuleSets}
    \cup {[state |-> f, rules |-> EmptyRules] : f \in FailedSources}

\* a rule file that is valid JSON and maps the tiers to lists, one of which
\* also holds an entry that is not a string: json.load and the log line of
\* _load_rules accept it (moderation.py:76-80), keyword.lower() in
\* _compile_patterns raises AttributeError on it (moderation.py:103).  rules
\* holds the string keywords of the file.
MalformedFiles ==
    {[state |-> "bad_term", rules |-> r] : r \in ReloadRuleSets \ {EmptyRules}}

\* a loader that falls back to a built-in list when the file cannot be read
LoadRulesDefault(file) ==
    IF file.state \in FailedSources
    THEN [EmptyRules EXCEPT !["high"] = << <<"a">> >>]
    ELSE file.rules

\* _load_rules: the parsed file, or four empty lists after any exception
LoadRules(file) ==
    IF file.state \in FailedSources THEN EmptyRules ELSE file.rules

\* whether _compile_patterns raises on the rules loaded from file
CompileRaises(file) == file.state = "bad_term"

\* ModerationService.__init__ (moderation.py:46-70); a file on which
\* _compile_patterns raises leaves no service behind
ReloadInit ==
    /\ \E file \in RuleFiles :
        /\ modRules = LoadRules(file)
        /\ modSource = file.state
    /\ modCompiled = CompilePatterns(modRules)
    /\ modEnabled \in BOOLEAN
    /\ modStats = ZeroStats
    /\ modContent = <<>>
    /\ modResult = NoResult
    /\ pipe = PipeIdle
    /\ ChatQuiet

\* reload_rules (moderation.py:375-388): self.rules is assigned first, then
\* self._compiled_patterns; an exception in between is caught and answered
\* with False, and leaves the first assignment in place
ReloadRules(file) ==
    /\ modRules' = LoadRules(file)
    /\ modSource' = file.state
    /\ modCompiled' = IF CompileRaises(file) THEN modCompiled
                      ELSE CompilePatterns(LoadRules(file))
    /\ UNCHANGED <<modEnabled, modStats, modContent, modResult, pipe, chatVars>>

\* the texts screened between reloads: a keyword of each rule file alone, in
\* upper case between blanks, inside a longer word, a blank and the empty text
ReloadTexts == {<<>>, <<" ">>, <<"a">>, <<"b">>, <<" ", "A", " ">>, <<"a", "b">>}

ReloadNext ==
    \/ \E content \in ReloadTexts : Moderate(content)
    \/ \E file \in RuleFiles \cup MalformedFiles : ReloadRules(file)

ReloadSpec == ReloadInit /\ [][ReloadNext]_vars

---------------------------------------------------------------------------
(* Claims about ChatManager and the resume handler *)

UserMessagesOf(k) == {m \in messages : m.sender = "user" /\ m.cmid = k}

MessagesBy(c, sender) == {m \in messages : m.by = c /\ m.sender = sender}

Generating(c) == call[c].pc \in {"pipeline", "stream", "streaming"}

C28_RetriedBatchSend ==
    \A c \in Calls :
        (call[c].kind = "batch" /\ call[c].pc = "ended" /\ call[c].result = "duplicate") =>
            /\ ChatRouteStatus(call[c].result) < 500
            /\ "duplicate" \in ChatRouteBody(call[c].result)
            /\ MessagesBy(c, "user") = {} /\ MessagesBy(c, "assistant") = {}

\* the conversation of call c does not exist or belongs to another user
NotOwned(c) == call[c].lookup \in {"other", "none"}

\* C29: Ownership check.  A call of handle_user_message for a conversation
\* that does not exist or belongs to another user ends by raising; on a
\* WebSocket whose transport is up the client is sent error frames, the
\* first of them naming the refusal, and nothing else; the call stores no
\* message and invokes no pipeline stage, and the step that refuses it leaves
\* the stored messages and the conversation's message count as they were.
C29_OwnershipCheck ==
    /\ [](\A c \in Calls :
            NotOwned(c) =>
                /\ call[c].pc = "ended" /\ call[c].result = "raised"
                /\ call[c].stages = 0
                /\ MessagesBy(c, "user") = {} /\ MessagesBy(c, "assistant") = {}
                /\ \A i \in 1..Len(call[c].frames) : call[c].frames[i].type = "error"
                /\ (call[c].kind = "ws" /\ call[c].open) =>
                      /\ call[c].frames # <<>>
                      /\ call[c].frames[1] =
                            ErrorFrame("Conversation not found or access denied"))
    /\ [][\A c \in Calls :
            (~NotOwned(c) /\ NotOwned(c)') =>
                (messages' = messages /\ msgCount' = msgCount)]_vars
    /\ [][\A c \in Calls :
            (NotOwned(c) /\ call[c]' # call[c]) =>
                (messages' = messages /\ msgCount' = msgCount
                 /\ call[c]'.pc \in {"ended", "idle"})]_vars

\* a streaming call is refused for a conversation of another user while the
\* conversation already holds the messages of an earlier turn
C29_Witness ==
    /\ call["c2"].kind = "ws" /\ call["c2"].open
    /\ call["c2"].lookup = "other" /\ call["c2"].pc = "ended"
    /\ Len(call["c2"].frames) = 3
    /\ call["c1"].result = "ok" /\ msgCount = 2

\* no call of handle_user_message is under way
NoTurnInProgress == \A c \in Calls : call[c].pc \in {"idle", "ended"}

StreamedTurn(c) == call[c].kind = "ws" /\ call[c].pc = "ended" /\ call[c].stages > 0

NoLiveEntry ==
    \/ resume.id = NoId
    \/ ~resume.entry.present
    \/ resume.at >= resume.entry.expires

\* C4: a resume frame whose lastMessageId has no cache entry, whose entry has
\* passed its TTL, or that carries no lastMessageId is answered with exactly one
\* resume_ack frame (none if the connection is lost before the reply) and with
\* no chunk and no done frame.
C4_ResumeAckOnly ==
    (resume.handled /\ NoLiveEntry) =>
        /\ resume.frames \in {<<>>, <<Frame("resume_ack", NoId, <<>>)>>}
        /\ resume.alive => resume.frames = <<Frame("resume_ack", NoId, <<>>)>>

C4_Witness ==
    /\ resume.handled /\ resume.alive
    /\ resume.entry.present /\ resume.entry.content # <<>>
    /\ resume.at >= resume.entry.expires
    /\ resume.frames = <<Frame("resume_ack", NoId, <<>>)>>

\* the entry under key is at or past its expiry time
Expired(key) == cache[key].present /\ now >= cache[key].expires

\* C34: Expiry is enforced on read.  get_stream returns the content of an
\* entry only before the entry's expiry time, whether or not the sweep has
\* removed the entry; cleanup_expired removes the expired entries, all of
\* them and no other; and what get_stream returns for a key is the same
\* whether the sweep runs before it or not.
C34_ExpiryOnRead ==
    /\ [](\A key \in CacheKeys :
            LET got == GetStream(cache, key, now)
            IN  /\ got.hit <=> (cache[key].present /\ ~Expired(key))
                /\ got.hit => got.content = cache[key].content
                /\ GetStream(CacheAfterCleanup(cache, now), key, now) = got)
    /\ []((/\ resume.handled
            /\ \E i \in 1..Len(resume.frames) : resume.frames[i].type \in {"chunk", "done"})
                => (resume.entry.present /\ resume.at < resume.entry.expires))
    /\ [][CleanupExpired =>
            \A key \in CacheKeys :
                IF Expired(key) THEN ~cache'[key].present
                ELSE cache'[key] = cache[key]]_vars

\* the cache holds an expired entry the sweep has not removed and an
\* unexpired one
C34_Witness ==
    \E k1, k2 \in CacheKeys :
        /\ Expired(k1) /\ cache[k1].content # <<>>
        /\ cache[k2].present /\ ~Expired(k2)

\* the turn of user message m has its assistant message, or its error
TurnClosed(c) == MessagesBy(c, "assistant") # {} \/ call[c].result = "raised"

---------------------------------------------------------------------------
(* Claims about ChatManager with a rule set loaded, checked under ScreenSpec *)

\* the verdict of input screening on a text, under the rules loaded
InputVerdict(text) == ModerateContent(modEnabled, modCompiled, text).action

\* the status the user message is said to get for a verdict
StatusForVerdict(action) ==
    IF action = "block" THEN "blocked"
    ELSE IF action = "flag" THEN "flagged"
    ELSE "sent"

---------------------------------------------------------------------------
(* Claims about the WebSocket endpoint *)

\* the frames of the turn of call c that end the turn for the client
TerminalFrames(c) ==
    {i \in 1..Len(call[c].frames) : call[c].frames[i].type \in {"done", "error"}}

LastTurn(s) == conn[s].turns[Len(conn[s].turns)]

\* C14: Terminal signal.  No turn returns on a connection whose transport is
\* up without a done frame or an error frame sent for it; and, every awaited
\* call returning or raising, the turn a message frame starts is followed by
\* the endpoint waiting for the next frame, a done or error frame of that turn
\* having been sent if the transport is still up.
C14_TerminalSignal ==
    /\ [](\A c \in Calls : (call[c].pc = "ended" /\ call[c].open) => TerminalFrames(c) # {})
    /\ \A s \in Speakers :
          (conn[s].state = "in_turn") ~>
              (/\ conn[s].state = "waiting"
               /\ conn[s].turns # <<>>
               /\ conn[s].open => TerminalFrames(LastTurn(s)) # {})

\* a turn has streamed to its done frame and the endpoint waits again
C14_Witness ==
    \E s \in Speakers :
        /\ conn[s].state = "waiting" /\ conn[s].open /\ Len(conn[s].turns) = 1
        /\ \E i \in TerminalFrames(LastTurn(s)) : call[LastTurn(s)].frames[i].type = "done"
        /\ call[LastTurn(s)].result = "ok"

\* the transport of call c was lost after its generation was dispatched
LostWhileGenerating(c) == call[c].pc = "streaming" /\ ~call[c].open

\* C15: Disconnect does not cancel.  Once the transport of a turn is lost no
\* further frame is added to what the client received; a turn whose generation
\* was dispatched ends only with its stream consumed to the end; and, every
\* awaited call returning or raising, a turn whose transport is lost while it
\* generates ends with its assistant message persisted, unless the stream or
\* the storage raised.
C15_DisconnectDoesNotCancel ==
    /\ [][\A c \in Calls : (call[c].kind = "ws" /\ ~call[c].open) =>
                                call'[c].frames = call[c].frames]_vars
    /\ [](\A c \in Calls : (call[c].pc = "ended" /\ call[c].stages > 0) => call[c].plan = <<>>)
    /\ \A c \in Calls :
          LostWhileGenerating(c) ~>
              (/\ call[c].pc = "ended"
               /\ call[c].plan = <<>>
               /\ \/ call[c].result = "raised"
                  \/ \E m \in MessagesBy(c, "assistant") :
                        m.status = "sent" /\ m.content = Flatten(call[c].full))

\* the client left after the first of two chunks; both were consumed and
\* persisted, and the client has the first chunk frame only
C15_Witness ==
    \E c \in Calls :
        /\ call[c].pc = "ended" /\ call[c].disc.set /\ call[c].result = "ok"
        /\ Len(call[c].full) = 2
        /\ call[c].frames = <<Frame("chunk", AsstMsgId(c), call[c].full[1])>>
        /\ \E m \in MessagesBy(c, "assistant") :
              m.status = "sent" /\ m.content = Flatten(call[c].full)

IsChunk(f) == f.type = "chunk"

\* the chunk frames sent in the turn of call c, in the order they were sent
ChunkFrames(c) == SelectSeq(call[c].frames, IsChunk)

\* C17: Frame ordering within a turn.  The chunk frames of a turn carry the
\* turn's messageId and the chunks the pipeline yielded, in the order it
\* yielded them; the turn has at most one done frame, every chunk frame stands
\* before it, and it is sent only after all the chunks.
C17_FrameOrder ==
    \A c \in Calls :
        LET fr == call[c].frames
            cf == ChunkFrames(c)
        IN  /\ Len(cf) <= Len(call[c].full)
            /\ \A i \in 1..Len(cf) : cf[i].id = AsstMsgId(c) /\ cf[i].data = call[c].full[i]
            /\ \A i, j \in 1..Len(fr) :
                  /\ (fr[i].type = "done" /\ fr[j].type = "chunk") => j < i
                  /\ (fr[i].type = "done" /\ fr[j].type = "done") => i = j
            /\ \A i \in 1..Len(fr) :
                  fr[i].type = "done" =>
                      /\ fr[i].id = AsstMsgId(c)
                      /\ Len(cf) = Len(call[c].full)
                      /\ call[c].plan = <<>>

\* two different chunks, then done
C17_Witness ==
    \E c \in Calls :
        /\ Len(call[c].frames) = 3
        /\ call[c].frames[1].type = "chunk" /\ call[c].frames[2].type = "chunk"
        /\ call[c].frames[1].data # call[c].frames[2].data
        /\ call[c].frames[3].type = "done"

\* the data of the chunk frames sent so far in the turn of call c, concatenated
ChunkText(c) == Flatten([i \in 1..Len(ChunkFrames(c)) |-> ChunkFrames(c)[i].data])

ClaimedCloseCode(tok, lookup) ==
    IF tok \in {"invalid", "unknown_user"} THEN 4001
    ELSE IF tok = "error" \/ lookup = "raises" THEN 4000
    ELSE IF lookup \in {"other", "none"} THEN 4003
    ELSE 0

Refused(s) == conn[s].state # "connecting" /\ ~conn[s].accepted

\* C18: Connection admission.  A connection is accepted, registered or has a
\* frame processed only if its token verified to a user and that user owns the
\* conversation; a refused connection is closed with the code of its cause,
\* has had no frame processed and no frame sent, and its refusal leaves the
\* registry as it was.
C18_Admission ==
    /\ [](\A s \in Sockets :
            /\ (\/ conn[s].accepted
                \/ conn[s].received > 0
                \/ registry[ConnectionKey] = s
                \/ conn[s].state \in {"waiting", "in_turn"})
                  => (conn[s].token = "user" /\ conn[s].lookup = "owned")
            /\ Refused(s) =>
                  /\ conn[s].state = "closed"
                  /\ conn[s].code \in {4001, 4003, 4000}
                  /\ conn[s].code = ClaimedCloseCode(conn[s].token, conn[s].lookup)
                  /\ conn[s].received = 0
                  /\ conn[s].frames = <<>>)
    /\ [][\A s \in Sockets : (~Refused(s) /\ Refused(s)') => registry' = registry]_vars

\* the kinds of inbound frame the receive loop itself finds invalid
InvalidKinds == {"invalid_json", "not_object", "unknown_type"}

\* connection s takes an inbound frame of one of the kinds in this step
Takes(s, kinds) == conn[s].received' = conn[s].received + 1 /\ conn[s].last' \in kinds

\* in this step one frame, an error frame, is sent on connection s
AnsweredWithError(s) ==
    /\ Len(conn[s].frames') = Len(conn[s].frames) + 1
    /\ SubSeq(conn[s].frames', 1, Len(conn[s].frames)) = conn[s].frames
    /\ conn[s].frames'[Len(conn[s].frames')].type = "error"

TurnRaised(s) ==
    /\ conn[s].state = "in_turn"
    /\ call[conn[s].cur].pc = "ended"
    /\ call[conn[s].cur].result = "raised"

\* C20: Pipeline error keeps the connection.  A turn in which the pipeline or
\* the persistence raised has sent an error frame if the transport is up; the
\* endpoint then leaves the turn for waiting, with the connection as open and
\* as registered as it was; and, every awaited call returning or raising, it
\* does leave it.
C20_ErrorKeepsConnection ==
    /\ [](\A c \in Calls :
            (call[c].pc = "ended" /\ call[c].result = "raised" /\ call[c].open) =>
                /\ call[c].frames # <<>>
                /\ call[c].frames[Len(call[c].frames)].type = "error")
    /\ [][\A s \in Sockets :
            (TurnRaised(s) /\ conn[s]' # conn[s]) =>
                /\ conn[s].state' = "waiting"
                /\ conn[s].open' = call[conn[s].cur].open
                /\ conn[s].accepted'
                /\ registry' = registry]_vars
    /\ \A s \in Speakers : TurnRaised(s) ~> (conn[s].state = "waiting")

\* the stream of the first turn raised after a chunk; the second message frame
\* of the same connection was answered to its done frame
C20_Witness ==
    \E s \in Speakers :
        /\ conn[s].state = "waiting" /\ conn[s].open
        /\ conn[s].turns = <<"c1", "c2">>
        /\ call["c1"].result = "raised" /\ call["c1"].fails /\ call["c1"].full # <<>>
        /\ call["c1"].frames[Len(call["c1"].frames)].type = "error"
        /\ call["c2"].result = "ok"
        /\ call["c2"].frames[Len(call["c2"].frames)].type = "done"
        /\ registry[ConnectionKey] = s

\* the frames of type sent in the turn of call c
FramesOfType(c, type) ==
    {call[c].frames[i] : i \in {j \in 1..Len(call[c].frames) : call[c].frames[j].type = type}}

\* C38: Persisted transcript matches the stream.  A streaming turn that
\* returned normally has exactly one assistant message, stored with status
\* sent under the messageId that every chunk frame and the done frame of the
\* turn carry; the done frame carries the stored content; and, the transport
\* having stayed up, there is one done frame and the stored content is the
\* data of the turn's chunk frames, concatenated in the order they were sent.
C38_TranscriptMatchesStream ==
    \A c \in Calls :
        (call[c].kind = "ws" /\ call[c].pc = "ended" /\ call[c].result = "ok") =>
            /\ Cardinality(MessagesBy(c, "assistant")) = 1
            /\ \A m \in MessagesBy(c, "assistant") :
                  /\ m.status = "sent"
                  /\ \A f \in FramesOfType(c, "chunk") : f.id = m.id
                  /\ \A f \in FramesOfType(c, "done") : f.id = m.id /\ f.data = m.content
                  /\ call[c].open =>
                        /\ Cardinality(FramesOfType(c, "done")) = 1
                        /\ m.content = ChunkText(c)

\* a turn of two chunks and a done frame, stored as the two chunks' text
C38_Witness ==
    /\ call["c1"].kind = "ws" /\ call["c1"].pc = "ended" /\ call["c1"].result = "ok"
    /\ call["c1"].open /\ Len(ChunkFrames("c1")) = 2
    /\ \E m \in MessagesBy("c1", "assistant") : m.content = <<"p", "q">>

C26_RegistryReplacement ==
    /\ [](\A key \in ConnectionKeys : registry[key] \in Sockets \cup {NoSocket})
    /\ [][\A s \in Sockets :
            (/\ ~conn[s].accepted /\ conn[s]'.accepted
             /\ registry[ConnectionKey] \notin {NoSocket, s})
                => registry'[ConnectionKey] = s]_vars
    /\ [][\A s \in Sockets :
            (/\ registry[ConnectionKey] = s
             /\ \A t \in Sockets : conn[t]'.accepted = conn[t].accepted
             /\ \A t \in Sockets : conn[t]'.state # "closed" \/ conn[t].state = "closed")
                => registry'[ConnectionKey] = s]_vars

\* both connections are open and s2, accepted while s1 held the key, holds it
C26_Witness ==
    /\ conn["s1"].accepted /\ conn["s1"].state \in {"waiting", "in_turn"}
    /\ conn["s2"].accepted /\ conn["s2"].state = "waiting"
    /\ registry[ConnectionKey] = "s2"
    /\ conn["s1"].received > 0

\* connection s has been accepted and has not ended
ConnOpen(s) == conn[s].accepted /\ conn[s].state # "closed"

TurnActive(c) == call[c].pc \notin {"idle", "ended"}

\* C40: One turn at a time per connection.  On one connection the only turn
\* that can be under way is the one its endpoint is awaiting; and while the
\* endpoint is in a turn it takes no further inbound frame, sends no pong,
\* error or replayed frame of its own, serves no resume request, and no other
\* turn sends a frame, so the frames of two turns never interleave.
C40_OneTurnAtATime ==
    /\ [](\A s \in Speakers :
            \A c \in Calls :
                TurnActive(c) => (conn[s].state = "in_turn" /\ conn[s].cur = c))
    /\ [][\A s \in Speakers :
            conn[s].state = "in_turn" =>
                /\ conn'[s].received = conn[s].received
                /\ conn'[s].frames = conn[s].frames
                /\ resume' = resume
                /\ \A c \in Calls \ {conn[s].cur} :
                      call'[c].frames = call[c].frames /\ call'[c].pc = call[c].pc]_vars

\* a second turn of the connection is sending frames after the first turn,
\* which sent frames too, has returned
C40_Witness ==
    /\ conn["s1"].state = "in_turn"
    /\ conn["s1"].turns = <<"c1">>
    /\ conn["s1"].cur = "c2"
    /\ Len(call["c1"].frames) > 0
    /\ Len(call["c2"].frames) > 0

---------------------------------------------------------------------------
(* Claims about LLMProvider, checked under PipeSpec *)

DownstreamStages == {"summarize", "retrieve", "generate", "moderate_out"}

\* the input of the run was screened and blocked
PipeBlocked == pipe.inMod.action = "block"

\* C6: whenever input screening returns block, in batch and streaming and in
\* live and offline mode, no summarization, retrieval, generation or output
\* screening is invoked afterwards, and the returned text (or the concatenated
\* stream) is the fixed refusal of the tier.
C6_BlockShortCircuit ==
    PipeBlocked =>
        /\ \A i \in 1..Len(pipe.stages) : pipe.stages[i] \notin DownstreamStages
        /\ pipe.pc = "done" =>
              PipeAnswer = SafeResponseForBlockedContent(pipe.inMod.severity)

\* C7: every answer to an input that is not blocked, returned or streamed, in
\* live and offline mode, ends with the disclaimer and holds it exactly once.
C7_DisclaimerOnce ==
    (pipe.pc = "done" /\ ~PipeBlocked) =>
        /\ EndsWith(PipeAnswer, Disclaimer)
        /\ Occurrences(PipeAnswer, Disclaimer) = 1

\* C22: every answer, returned by process_pipeline or streamed by
\* process_pipeline_stream, the refusal of a blocked input and the replacement
\* of a blocked output included, ends with the disclaimer.
C22_DisclaimerOnEveryAnswer ==
    pipe.pc = "done" => EndsWith(PipeAnswer, Disclaimer)

\* the run went through output screening and its verdict was block; modContent
\* is then the generated text that was screened
OutputBlocked ==
    /\ pipe.pc = "done"
    /\ pipe.stages # <<>> /\ pipe.stages[Len(pipe.stages)] = "moderate_out"
    /\ modResult.action = "block"

\* C23: in batch mode, when output screening blocks, the answer is the generic
\* safe message (then the emergency resources for an emergency-tier input, then
\* the disclaimer) and the generated text occurs nowhere in it.
C23_BlockedOutputReplaced ==
    (OutputBlocked /\ pipe.mode = "batch") =>
        /\ PipeAnswer = OutputBlockedMessage
                          \o (IF pipe.inMod.severity = "medical_emergency"
                              THEN EmergencyResources ELSE <<>>)
                          \o Disclaimer
        /\ modContent # <<>>
        /\ Occurrences(PipeAnswer, modContent) = 0

\* the model generated a text with a blocked term and the answer replaces it
C23_Witness ==
    /\ OutputBlocked /\ pipe.mode = "batch" /\ ~pipe.genFails
    /\ modContent = Flatten(pipe.buf)
    /\ Len(modContent) = 3
    /\ Occurrences(PipeAnswer, OutputBlockedMessage) = 1

\* what process_pipeline returns for the input and the collaborator results of
\* run p: the offline answer, the pipeline-error answer for an input without
\* text, the refusal of a blocked input, or the generated text (the apology
\* when the model failed), the emergency block and the disclaimer
BatchTextOf(p) ==
    IF p.dev THEN DevModeResponse(p, modEnabled, modCompiled)
    ELSE IF p.text = <<>> THEN PipelineErrorMessage \o Disclaimer
    ELSE IF p.inMod.action = "block" THEN SafeResponseForBlockedContent(p.inMod.severity)
    ELSE GenerationOutcome(p.genFails, Flatten(p.buf))
            \o (IF p.inMod.severity = "medical_emergency" THEN EmergencyResources ELSE <<>>)
            \o Disclaimer

\* the model's stream broke after it had yielded text
BrokeMidStream == pipe.mode = "stream" /\ pipe.genFails /\ Len(pipe.buf) > 1

\* C39: Streaming and batch agree.  For every finished run whose output was
\* not blocked, in live and in offline mode, the answer - the text
\* process_pipeline returns, or the concatenation of the chunks
\* process_pipeline_stream yields - is the text process_pipeline returns for
\* the run's input and collaborator results.  (Runs whose model stream broke
\* after yielding text have no batch counterpart and are left out.)
C39_StreamingAndBatchAgree ==
    (pipe.pc = "done" /\ ~OutputBlocked /\ ~BrokeMidStream) =>
        PipeAnswer = BatchTextOf(pipe)

\* C11: when the input verdict is the emergency tier the pipeline proceeds to
\* generation, and the final answer (batch result or concatenated stream) is the
\* generated or replacement text, then the emergency-resources block, then the
\* disclaimer, whatever the verdict of output screening.
C11_EmergencyBlock ==
    (pipe.pc = "done" /\ pipe.inMod.severity = "medical_emergency") =>
        /\ \E i \in 1..Len(pipe.stages) : pipe.stages[i] = "generate"
        /\ EndsWith(PipeAnswer, EmergencyResources \o Disclaimer)

\* the run reached the generation stage
Generated == \E i \in 1..Len(pipe.stages) : pipe.stages[i] = "generate"

\* C12: for any combination of failures of the transcription, visual
\* description, summarization and retrieval stages the run does not stop at the
\* failed stage: it goes on to input screening, reaches generation unless the
\* input is blocked, and ends with a non-empty answer.
C12_StageFailureRecovery ==
    (pipe.failed # {}) =>
        /\ pipe.pc \in {"image", "moderate", "summarize", "retrieve", "generate",
                        "streaming", "moderate_out", "done"}
        /\ pipe.pc = "done" =>
              /\ PipeAnswer # <<>>
              /\ \E i \in 1..Len(pipe.stages) : pipe.stages[i] = "moderate_in"
              /\ PipeBlocked \/ Generated

C12_Witness ==
    /\ pipe.pc = "done" /\ pipe.mode = "stream"
    /\ pipe.failed = {"transcribe", "vision", "summarize", "retrieve"}
    /\ Generated /\ PipeAnswer # <<>>

\* s occurs in t and ends at or before position last
OccursBefore(s, t, last) ==
    \E i \in 1..Len(t) : i + Len(s) - 1 <= last /\ SubSeq(t, i, i + Len(s) - 1) = s

\* C13: when the generation call fails, process_pipeline returns, and
\* process_pipeline_stream yields, the non-empty generic apology and after it the
\* disclaimer; the answer is never empty.
C13_GenerationFailureApology ==
    (pipe.pc = "done" /\ pipe.genFails) =>
        /\ PipeAnswer # <<>>
        /\ GenerationApology # <<>>
        /\ EndsWith(PipeAnswer, Disclaimer)
        /\ OccursBefore(GenerationApology, PipeAnswer, Len(PipeAnswer) - Len(Disclaimer))

C13_Witness ==
    /\ pipe.pc = "done" /\ pipe.genFails /\ pipe.mode = "stream"
    /\ Len(pipe.chunks) >= 3
    /\ pipe.chunks[Len(pipe.chunks) - 1] = GenerationApology

---------------------------------------------------------------------------
(* Claims about ModerationService, checked under ModSpec *)

\* the text of the last call matches a term of tier t under the compiled rules
LastMatches(t) == CheckSeverityLevel(modCompiled, Strip(Lower(modContent)), t) # <<>>

IsHighVerdict(r) == r.severity = "high" /\ r.action = "block" /\ r.is_safe = FALSE

\* C8 as stated: every text that matches a high-tier term gets the verdict
\* high / block / unsafe, whatever other tiers it matches.
C8_HighWinsAlways == LastMatches("high") => IsHighVerdict(modResult)

\* C8 amended: while moderation is enabled, every text that matches a high-tier
\* term gets the verdict high / block / unsafe, whatever other tiers it matches.
C8_HighWinsWhenEnabled ==
    (modEnabled /\ LastMatches("high")) => IsHighVerdict(modResult)

\* a screened text matching a high-tier term and a term of another tier
C8_Witness ==
    /\ modEnabled
    /\ LastMatches("high")
    /\ \E t \in Tiers \ {"high"} : LastMatches(t)
    /\ IsHighVerdict(modResult)

\* the order the specification gives
ClaimedOrder == <<"high", "medical_emergency", "medium", "low">>

\* C9: the tiers are checked in the order high, emergency, medium, low and the
\* first matching tier gives the verdict's severity; so a screened text matching
\* an emergency term and no high term gets the emergency verdict.
C9_ClaimedTierOrder ==
    IsScreened(modEnabled, modContent) =>
        modResult.severity =
            FirstMatchingTier(ClaimedOrder, modCompiled, Strip(Lower(modContent)), 1)

\* the action, safety flag and recommendation the specification gives per tier
PolicyOf(severity) ==
    IF severity = "high" THEN <<"block", FALSE, "none">>
    ELSE IF severity = "medical_emergency"
    THEN <<"flag", TRUE, "immediate_medical_attention">>
    ELSE IF severity = "medium" THEN <<"flag", TRUE, "none">>
    ELSE <<"allow", TRUE, "none">>

\* C10: the verdict is a function of the winning tier only: high block/unsafe,
\* emergency flag/safe with the emergency recommendation, medium flag/safe,
\* low allow/safe, no match allow/safe with no severity.
C10_VerdictPolicy ==
    LET winner == IF IsScreened(modEnabled, modContent)
                  THEN FirstMatchingTier(SeverityOrder, modCompiled,
                                         Strip(Lower(modContent)), 1)
                  ELSE NoSeverity
    IN  /\ modResult.severity = winner
        /\ <<modResult.action, modResult.is_safe, modResult.recommended_action>>
               = PolicyOf(winner)
        /\ (winner = NoSeverity) = (modResult.matched_keywords = <<>>)

\* the emergency tier has won a call
C10_Witness ==
    /\ modResult.severity = "medical_emergency"
    /\ modResult.action = "flag"
    /\ modStats["medical_emergency"] = 1

\* term stands in s at position i as a word or a run of words of its own,
\* in whatever letter case: the text begins or a blank stands before it, and
\* the text ends or a blank stands after it
DelimitedAt(term, s, i) ==
    /\ i + Len(term) - 1 <= Len(s)
    /\ Lower(SubSeq(s, i, i + Len(term) - 1)) = Lower(term)
    /\ i = 1 \/ IsSpace(s[i - 1])
    /\ i + Len(term) - 1 = Len(s) \/ IsSpace(s[i + Len(term)])

HasDelimited(term, s) == \E i \in 1..Len(s) : DelimitedAt(term, s, i)

\* the configured terms with an occurrence of their own in s
TermsIn(s) ==
    {term \in UNION {{modRules[t][k] : k \in 1..Len(modRules[t])} : t \in Tiers} :
        HasDelimited(term, s)}

\* C30: Boundary-anchored, case-insensitive matching.  For the text last
\* screened and every configured term, the term's pattern finds something
\* exactly when the term stands in the text delimited by the text's ends or
\* by blanks, in whatever letter case, and what it finds is the term up to
\* letter case; a term that occurs only inside a longer word is not found.
\* A screened text gets a tier exactly when some configured term stands in
\* it that way, and every keyword the verdict reports is such a term of the
\* verdict's tier.
C30_BoundaryAnchoredMatching ==
    /\ \A t \in Tiers : \A k \in 1..Len(modRules[t]) :
          LET term == modRules[t][k]
              found == FindAll(modCompiled[t][k], modContent)
          IN  /\ (found # <<>>) <=> HasDelimited(term, modContent)
              /\ \A j \in 1..Len(found) : Lower(found[j]) = Lower(term)
    /\ (modResult # NoResult /\ IsScreened(modEnabled, modContent)) =>
          /\ (modResult.severity # NoSeverity) <=> (TermsIn(modContent) # {})
          /\ modResult.severity # NoSeverity =>
                \A j \in 1..Len(modResult.matched_keywords) :
                    \E k \in 1..Len(modRules[modResult.severity]) :
                        /\ modResult.matched_keywords[j] = Lower(modRules[modResult.severity][k])
                        /\ HasDelimited(modRules[modResult.severity][k], modContent)

\* with the high-tier term "a" configured, a text holding "a" only inside the
\* longer word "ab" is allowed, after a text holding "A" was blocked
C30_Witness ==
    /\ modEnabled
    /\ modRules["high"] = << <<"a">> >>
    /\ modContent = <<"a", "b">>
    /\ modResult.action = "allow" /\ modResult.severity = NoSeverity
    /\ modStats["total_checks"] = 2 /\ modStats["blocked_messages"] = 1

---------------------------------------------------------------------------
(* Claims about rule loading and the statistics, checked under ReloadSpec *)

\* every moderate_content call the service would answer now is allow/safe
AllowsEverything ==
    \A content \in Texts :
        LET r == ModerateContent(modEnabled, modCompiled, content)
        IN  r.action = "allow" /\ r.is_safe

\* C24: after a load, at construction or at reload, that found the rule
\* file missing, unreadable or not valid JSON, the service holds an empty
\* keyword list and no pattern for each of the four tiers, and every
\* moderate_content call it answers from then on is allow/safe; such a call
\* counts nothing as blocked or flagged.
C24_FailOpenLoading ==
    /\ [](modSource \in FailedSources =>
            /\ DOMAIN modRules = Tiers
            /\ \A t \in Tiers : modRules[t] = <<>> /\ modCompiled[t] = <<>>
            /\ AllowsEverything)
    /\ [][\A content \in ReloadTexts :
            (modSource \in FailedSources /\ Moderate(content)) =>
                /\ modResult'.action = "allow" /\ modResult'.is_safe
                /\ modStats'["blocked_messages"] = modStats["blocked_messages"]
                /\ modStats'["flagged_messages"] = modStats["flagged_messages"]]_vars

\* a text was blocked under the rules of a readable file, a reload then
\* found the file unreadable, and the same text is allowed afterwards
C24_Witness ==
    /\ modSource \in FailedSources
    /\ modStats["blocked_messages"] = 1
    /\ modStats["total_checks"] = 2
    /\ modContent = <<"a">>
    /\ modResult.action = "allow"

\* C25: the keyword lists and the compiled patterns the service holds are
\* always of one version of the rule file, the patterns being the compiled
\* form of the lists, so that whoever reads self.rules (the statistics, the
\* admin routes) and whoever matches against self._compiled_patterns
\* (moderate_content) see the same rules.
C25_AtomicReload == modCompiled = CompilePatterns(modRules)

\* 1 when b holds, else 0
Count(b) == IF b THEN 1 ELSE 0

\* C32: Screening counters.  Every moderate_content call adds one to
\* total_checks exactly when moderation is enabled and the content is not
\* blank, one to blocked_messages exactly when its verdict is block, one to
\* flagged_messages exactly when it is flag, and one to the counter of the
\* verdict's tier and to no other tier's; a call made while moderation is
\* disabled or with blank content changes no counter.  The counters start at
\* zero, so each equals the number of such calls.
C32_ScreeningCounters ==
    [][(modRules' = modRules /\ modCompiled' = modCompiled /\ modSource' = modSource) =>
        LET content == modContent'
            r == modResult'
            counted == modEnabled /\ Strip(content) # <<>>
        IN  /\ modStats'["total_checks"] = modStats["total_checks"] + Count(counted)
            /\ modStats'["blocked_messages"] =
                  modStats["blocked_messages"] + Count(r.action = "block")
            /\ modStats'["flagged_messages"] =
                  modStats["flagged_messages"] + Count(r.action = "flag")
            /\ \A t \in Tiers :
                  modStats'[SeverityKey(t)] = modStats[SeverityKey(t)] + Count(r.severity = t)
            /\ ~counted => (modStats' = modStats /\ r.action = "allow")]_vars

\* a blocked call, then a call with blank content that was not counted
C32_Witness ==
    /\ modStats["total_checks"] = 1
    /\ modStats["blocked_messages"] = 1 /\ modStats["high_severity"] = 1
    /\ modStats["flagged_messages"] = 0
    /\ modContent = <<" ">> /\ modResult.message = "Empty content"

====
